---- MODULE Spec2Model ----
(***************************************************************************)
(* X509_Certificate (src/lib/x509/x509cert.cpp): the decode of the         *)
(* TBSCertificate (force_decode) and the read-side predicates built on the *)
(* decoded object.                                                         *)
(*                                                                         *)
(* An encoded certificate is a record `wire`: the three parts the          *)
(* X509_Object base class splits the input into (signature value, outer    *)
(* signature algorithm, signed body) with the signed body given by the     *)
(* objects the BER decoder will hand to force_decode, in order.  Bit masks *)
(* (Key_Constraints) are sets of bit names: & is \cap, 0 is {}.            *)
(***************************************************************************)
EXTENDS Integers, Sequences, FiniteSets, TLC

VARIABLES
    pc,      \* "encoded" | "decoded" | "failed": the constructor's outcome
    input,   \* the encoded certificate handed to the constructor
    cert,    \* the X509_Certificate object (meaningful when pc = "decoded")
    err,     \* the exception force_decode threw, "" when none
    peers,   \* further decoded certificates, for operator== and operator<
    query,   \* the last accessor or predicate called on cert, with its argument
    result   \* what that call returned

vars == <<pc, input, cert, err, peers, query, result>>

(***************************************************************************)
(* Bounds                                                                  *)
(***************************************************************************)
\* largest value of the version INTEGER on the wire
MaxWireVersion == 4
\* longest signature value, in bytes
MaxSigLen == 2
\* longest digest a hash function returns, in bytes
MaxDigestLen == 3

Bytes == {0, 1}

(***************************************************************************)
(* Algorithm identifiers and the OID registry                              *)
(***************************************************************************)
OID_RSA       == "1.2.840.113549.1.1.1"
OID_RSA_OAEP  == "1.2.840.113549.1.1.7"
OID_RSA_PSS   == "1.2.840.113549.1.1.10"
OID_RSA_SHA256 == "1.2.840.113549.1.1.11"
OID_ECDSA_KEY == "1.2.840.10045.2.1"
OID_ECDSA_SHA256 == "1.2.840.10045.4.3.2"
OID_UNKNOWN   == "1.3.9999.1"

OID_ServerAuth  == "1.3.6.1.5.5.7.3.1"
OID_ClientAuth  == "1.3.6.1.5.5.7.3.2"
OID_CodeSigning == "1.3.6.1.5.5.7.3.3"
OID_OCSPSigning == "1.3.6.1.5.5.7.3.9"

\* OIDS::oid2str followed by split_on(.., '/'): the name of an OID as its
\* '/'-separated parts; an OID the registry does not know has the name "",
\* which splits into no parts.
oid2str_split(oid) ==
    CASE oid = OID_RSA          -> <<"RSA">>
      [] oid = OID_RSA_OAEP     -> <<"RSA", "OAEP">>
      [] oid = OID_RSA_PSS      -> <<"RSA", "EMSA4">>
      [] oid = OID_RSA_SHA256   -> <<"RSA", "EMSA3(SHA-256)">>
      [] oid = OID_ECDSA_KEY    -> <<"ECDSA">>
      [] oid = OID_ECDSA_SHA256 -> <<"ECDSA", "EMSA1(SHA-256)">>
      [] OTHER                  -> <<>>

\* OIDS::str2oid on the names allowed_usage(Usage_Type) passes
str2oid(name) ==
    CASE name = "PKIX.ServerAuth"  -> OID_ServerAuth
      [] name = "PKIX.ClientAuth"  -> OID_ClientAuth
      [] name = "PKIX.CodeSigning" -> OID_CodeSigning
      [] name = "PKIX.OCSPSigning" -> OID_OCSPSigning
      [] OTHER                     -> ""

\* the encoded parameters field of an AlgorithmIdentifier
ParamEncodings == {"NULL", "EMPTY", "PSS-SHA256-32", "PSS-SHA256-20"}

AlgId(oid, params) == [oid |-> oid, parameters |-> params]

\* AlgorithmIdentifier(oid, USE_NULL_PARAM)
AlgIdNullParam(oid) == AlgId(oid, "NULL")

\* operator== / operator!= of AlgorithmIdentifier: the same OID and the same
\* encoded parameters
AlgIdEq(a, b) == a.oid = b.oid /\ a.parameters = b.parameters

(***************************************************************************)
(* Key_Constraints                                                         *)
(***************************************************************************)
UsageBits == {"DIGITAL_SIGNATURE", "NON_REPUDIATION", "KEY_ENCIPHERMENT",
              "KEY_AGREEMENT", "KEY_CERT_SIGN"}

NO_CONSTRAINTS == {}

Usage_Type == {"UNSPECIFIED", "TLS_SERVER_AUTH", "TLS_CLIENT_AUTH",
               "CERTIFICATE_AUTHORITY", "OCSP_RESPONDER"}

(***************************************************************************)
(* Names, distinguished names, alternative names                           *)
(***************************************************************************)
\* A name is the sequence of its '.'-separated labels; "" is <<>>.
HostA    == <<"a", "example", "com">>
HostB    == <<"b", "example", "com">>
HostAB   == <<"a", "b", "example", "com">>
HostBase == <<"example", "com">>
HostWild == <<"*", "example", "com">>
HostNone == <<>>

QueryNames == {HostNone, HostA, HostB, HostAB, HostBase, HostWild}

\* X509_DN: the Common Name values and one other attribute
DN(cns, org) == [cn |-> cns, o |-> org]

\* X509_DN::contents(): the attributes as (key, value) pairs
DN_contents(dn) ==
    {<<"X520.CommonName", n>> : n \in dn.cn} \cup {<<"X520.Organization", <<dn.o>>>>}

\* operator== of X509_DN
DN_Eq(a, b) == a = b

\* X509_DN::deref_info_field
deref_info_field(what) ==
    CASE what = "Name"       -> "X520.CommonName"
      [] what = "CommonName" -> "X520.CommonName"
      [] what = "CN"         -> "X520.CommonName"
      [] what = "Organization" -> "X520.Organization"
      [] OTHER               -> what

\* Data_Store::get: every value stored under a key
DataStore_get(ds, key) == {p[2] : p \in {q \in ds : q[1] = key}}

\* host_wildcard_match(issued, host): the names are equal, or issued is
\* "*." followed by everything after the first label of host
host_wildcard_match(issued, host) ==
    \/ issued = host
    \/ /\ Len(issued) >= 2
       /\ issued[1] = "*"
       /\ Len(host) >= 2
       /\ Tail(host) = Tail(issued)

(***************************************************************************)
(* Byte strings                                                            *)
(***************************************************************************)
ByteSeqs(n) == UNION {[1..k -> Bytes] : k \in 0..n}

RECURSIVE VecLess(_, _)
\* operator< of std::vector<uint8_t>: lexicographic, a proper prefix is less
VecLess(a, b) ==
    IF b = <<>> THEN FALSE
    ELSE IF a = <<>> THEN TRUE
    ELSE IF Head(a) < Head(b) THEN TRUE
    ELSE IF Head(b) < Head(a) THEN FALSE
    ELSE VecLess(Tail(a), Tail(b))

\* operator== of std::vector<uint8_t>: same length, same bytes
VecEq(a, b) == Len(a) = Len(b) /\ \A i \in 1..Len(a) : a[i] = b[i]

(***************************************************************************)
(* The encoded certificate                                                 *)
(***************************************************************************)
\* a BER_Object's tags, as get_next_object() reports them
BerObject(type_tag, class_tag) == [type_tag |-> type_tag, class_tag |-> class_tag]

PublicKeyObject == BerObject("SEQUENCE", "CONSTRUCTED")
ExtensionsObject == BerObject("3", "CONSTRUCTED|CONTEXT_SPECIFIC")
NoObject == BerObject("NO_OBJECT", "NO_OBJECT")

\* the decoded Extensions: what get_extension_object_as<T>() finds for the
\* kinds force_decode looks up, and the alternative names contents_to() copies
NoExtensions ==
    [key_usage         |-> [present |-> FALSE, constraints |-> {}],
     basic_constraints |-> [present |-> FALSE, is_ca |-> FALSE, path_limit |-> 0],
     ext_key_usage     |-> [present |-> FALSE, oids |-> {}],
     subject_alt_name  |-> {}]

AlgRsaSha256 == AlgId(OID_RSA_SHA256, "NULL")
AlgEcdsaSha256 == AlgId(OID_ECDSA_SHA256, "EMPTY")
AlgPss32 == AlgId(OID_RSA_PSS, "PSS-SHA256-32")
AlgPss20 == AlgId(OID_RSA_PSS, "PSS-SHA256-20")

DnCA  == DN({<<"Example CA">>}, "Example")
DnA   == DN({HostA}, "Example")
DnWild == DN({HostWild}, "Example")
DnTwo == DN({HostA, HostB}, "Example")
DnNoCN == DN({}, "Example")

\* every field the model enumerates, in the order the codes below use
AlgIdList == <<AlgRsaSha256, AlgEcdsaSha256, AlgPss32, AlgPss20,
               AlgId(OID_RSA_SHA256, "EMPTY"),
               AlgId(OID_RSA, "NULL"), AlgId(OID_RSA, "EMPTY"),
               AlgId(OID_RSA_OAEP, "NULL"), AlgId(OID_ECDSA_KEY, "EMPTY"),
               AlgId(OID_RSA_PSS, "NULL"), AlgId(OID_UNKNOWN, "NULL")>>
DnList == <<DnCA, DnA, DnWild, DnTwo, DnNoCN>>
TagList == <<PublicKeyObject, ExtensionsObject, NoObject,
             BerObject("SET", "CONSTRUCTED"), BerObject("SEQUENCE", "UNIVERSAL"),
             BerObject("4", "CONSTRUCTED|CONTEXT_SPECIFIC"),
             BerObject("3", "CONTEXT_SPECIFIC")>>
UsageBitList == <<"DIGITAL_SIGNATURE", "NON_REPUDIATION", "KEY_ENCIPHERMENT",
                  "KEY_AGREEMENT", "KEY_CERT_SIGN">>
EkuList == <<OID_ServerAuth, OID_ClientAuth, OID_CodeSigning, OID_OCSPSigning>>
AltNameList == <<<<"DNS", HostA>>, <<"DNS", HostB>>, <<"DNS", HostWild>>,
                 <<"DNS", HostBase>>, <<"RFC822", HostA>>, <<"RFC822", HostB>>>>

IndexOf(list, x) == CHOOSE i \in 1..Len(list) : list[i] = x

RECURSIVE MaskOf(_, _)
\* the members of S as a bit mask, bit i for the i-th element of list
MaskOf(S, list) ==
    IF list = <<>> THEN 0
    ELSE (IF Head(list) \in S THEN 1 ELSE 0) + 2 * MaskOf(S, Tail(list))

BoolByte(b) == IF b THEN 1 ELSE 0

\* the bytes of the extensions block
EncodeExtensions(e) ==
    <<BoolByte(e.key_usage.present), MaskOf(e.key_usage.constraints, UsageBitList),
      BoolByte(e.basic_constraints.present), BoolByte(e.basic_constraints.is_ca),
      e.basic_constraints.path_limit,
      BoolByte(e.ext_key_usage.present), MaskOf(e.ext_key_usage.oids, EkuList),
      MaskOf(e.subject_alt_name, AltNameList)>>

\* X509_Object::signed_body(): the bytes of the TBSCertificate.  Every object
\* of the body is part of them, so two bodies that differ in any object are
\* different byte strings; a version that is absent and one written as 0 are
\* different bytes for the same value.
EncodeTBS(w) ==
    <<(IF w.version.present THEN w.version.value + 1 ELSE 0),
      w.serial,
      IndexOf(AlgIdList, w.sig_algo_inner),
      IndexOf(DnList, w.issuer_dn),
      IndexOf(DnList, w.subject_dn),
      IndexOf(TagList, w.public_key),
      IndexOf(AlgIdList, w.public_key_alg_id),
      w.public_key_bitstring,
      BoolByte(w.v2_issuer_key_id), BoolByte(w.v2_subject_key_id),
      IndexOf(TagList, w.v3_exts_data)>>
    \o (IF w.v3_exts_data = ExtensionsObject THEN EncodeExtensions(w.extensions) ELSE <<>>)
    \o (IF w.more_items THEN <<0>> ELSE <<>>)

\* the hash functions fingerprint() is asked for
HashNames == {"SHA-256", "SHA-1"}

\* values of a digest byte
DigestBytes == {0, 26, 255}

\* a hash function returns at least one byte
Digests == UNION {[1..k -> DigestBytes] : k \in 1..MaxDigestLen}

\* a well-formed v3 certificate; the families below vary its fields
BaseWire ==
    [sig                  |-> <<0>>,
     sig_algo             |-> AlgRsaSha256,
     version              |-> [present |-> TRUE, value |-> 2],
     serial               |-> 1,
     sig_algo_inner       |-> AlgRsaSha256,
     issuer_dn            |-> DnCA,
     subject_dn           |-> DnA,
     public_key           |-> PublicKeyObject,
     public_key_alg_id    |-> AlgId(OID_RSA, "NULL"),
     public_key_bitstring |-> 1,
     v2_issuer_key_id     |-> FALSE,
     v2_subject_key_id    |-> FALSE,
     v3_exts_data         |-> ExtensionsObject,
     extensions           |-> NoExtensions,
     more_items           |-> FALSE,
     key_loadable         |-> TRUE,
     signature_verifies   |-> FALSE,
     sha1_available       |-> TRUE,
     digests              |-> [h \in HashNames |-> <<26, 255>>]]

(***************************************************************************)
(* The X509_Certificate object                                             *)
(***************************************************************************)
\* The object as the X509_Object constructor leaves it before do_decode():
\* the three parts of the encoding are loaded, every member of
\* X509_Certificate has its default.
NewCertificate(w) ==
    [sig                 |-> w.sig,
     sig_algo            |-> w.sig_algo,
     tbs_bits            |-> EncodeTBS(w),
     version             |-> 0,
     sig_algo_inner      |-> AlgId("", "EMPTY"),
     issuer_dn           |-> DnNoCN,
     subject_dn          |-> DnNoCN,
     subject_public_key_algid |-> AlgId("", "EMPTY"),
     subject_public_key_bitstring |-> 0,
     key_constraints     |-> NO_CONSTRAINTS,
     is_ca_certificate   |-> FALSE,
     path_len_constraint |-> 0,
     extended_key_usage  |-> {},
     self_signed         |-> FALSE,
     subject_public_key_bitstring_sha1 |-> <<>>,
     subject_ds          |-> {},
     issuer_ds           |-> {}]

signature(c) == c.sig
signature_algorithm(c) == c.sig_algo
signed_body(c) == c.tbs_bits
constraints(c) == c.key_constraints
extended_key_usage(c) == c.extended_key_usage
x509_version(c) == c.version
is_CA_cert(c) == c.is_ca_certificate
is_self_signed(c) == c.self_signed

\* the test for any requested bit instead of every requested bit
allowed_usage_AnyBit(c, usage) ==
    IF constraints(c) = NO_CONSTRAINTS THEN TRUE
    ELSE (constraints(c) \cap usage) # {}

\* allowed_usage(Key_Constraints usage)
allowed_usage(c, usage) ==
    IF constraints(c) = NO_CONSTRAINTS THEN TRUE
    ELSE (constraints(c) \cap usage) = usage

\* an empty extended key usage list read as "nothing is allowed"
allowed_extended_usage_oid_EmptyDenies(c, usage) == usage \in extended_key_usage(c)

\* allowed_extended_usage(const OID& usage)
allowed_extended_usage_oid(c, usage) ==
    LET ex == extended_key_usage(c) IN
    IF ex = {} THEN TRUE
    ELSE IF usage \in ex THEN TRUE
    ELSE FALSE

\* allowed_extended_usage(const std::string& usage)
allowed_extended_usage(c, usage) == allowed_extended_usage_oid(c, str2oid(usage))

\* allowed_usage(Usage_Type usage)
allowed_usage_type(c, usage) ==
    CASE usage = "UNSPECIFIED" -> TRUE
      [] usage = "TLS_SERVER_AUTH" ->
            /\ \/ allowed_usage(c, {"KEY_AGREEMENT"})
               \/ allowed_usage(c, {"KEY_ENCIPHERMENT"})
               \/ allowed_usage(c, {"DIGITAL_SIGNATURE"})
            /\ allowed_extended_usage(c, "PKIX.ServerAuth")
      [] usage = "TLS_CLIENT_AUTH" ->
            /\ \/ allowed_usage(c, {"DIGITAL_SIGNATURE"})
               \/ allowed_usage(c, {"KEY_AGREEMENT"})
            /\ allowed_extended_usage(c, "PKIX.ClientAuth")
      [] usage = "OCSP_RESPONDER" ->
            /\ \/ allowed_usage(c, {"DIGITAL_SIGNATURE"})
               \/ allowed_usage(c, {"NON_REPUDIATION"})
            /\ allowed_extended_usage(c, "PKIX.OCSPSigning")
      [] usage = "CERTIFICATE_AUTHORITY" -> is_CA_cert(c)
      [] OTHER -> FALSE

\* has_constraints without the test for NO_CONSTRAINTS, asking for every bit
has_constraints_AsAllowed(c, bits) == (constraints(c) \cap bits) = bits

\* has_constraints(Key_Constraints constraints)
has_constraints(c, bits) ==
    IF constraints(c) = NO_CONSTRAINTS THEN FALSE
    ELSE (constraints(c) \cap bits) # {}

\* subject_info(what), for the fields that are read from the subject's data
\* store (the fields answered from other members are not stored under "DNS"
\* or "X520.CommonName")
subject_info(c, what) == DataStore_get(c.subject_ds, deref_info_field(what))

\* the Common Name consulted even when DNS names are set
matches_dns_name_AlwaysCN(c, name) ==
    IF name = <<>> THEN FALSE
    ELSE \E issued \in subject_info(c, "DNS") \cup subject_info(c, "Name") :
            host_wildcard_match(issued, name)

\* matches_dns_name(name)
matches_dns_name(c, name) ==
    IF name = <<>> THEN FALSE
    ELSE LET dns == subject_info(c, "DNS")
             issued_names == IF dns = {} THEN subject_info(c, "Name") ELSE dns
         IN \E issued \in issued_names : host_wildcard_match(issued, name)

\* equality decided on parsed fields in place of the signed body
CertEq_ParsedFields(a, b) ==
    /\ VecEq(signature(a), signature(b))
    /\ AlgIdEq(signature_algorithm(a), signature_algorithm(b))
    /\ a.version = b.version
    /\ AlgIdEq(a.sig_algo_inner, b.sig_algo_inner)

\* what a call gives back: the exception it threw ("" when none) and the value
Returned(value) == [thrown |-> "", value |-> value]

Thrown(msg) == [thrown |-> msg, value |-> <<>>]

\* the accessor handing out the cached vector without looking at it
subject_public_key_bitstring_sha1_NoCheck(c) ==
    Returned(c.subject_public_key_bitstring_sha1)

\* subject_public_key_bitstring_sha1(): Encoding_Error when the cached digest
\* is empty
subject_public_key_bitstring_sha1(c) ==
    IF c.subject_public_key_bitstring_sha1 = <<>>
    THEN Thrown("X509_Certificate::subject_public_key_bitstring_sha1 called but SHA-1 disabled in build")
    ELSE Returned(c.subject_public_key_bitstring_sha1)

HexDigits == <<"0", "1", "2", "3", "4", "5", "6", "7",
               "8", "9", "A", "B", "C", "D", "E", "F">>

RECURSIVE hex_encode(_)
\* hex_encode(bytes): two upper case hex characters for each byte, the high
\* half first
hex_encode(bytes) ==
    IF bytes = <<>> THEN <<>>
    ELSE <<HexDigits[(Head(bytes) \div 16) + 1], HexDigits[(Head(bytes) % 16) + 1]>>
         \o hex_encode(Tail(bytes))

RECURSIVE FormatLoop_ColonAfterEach(_, _, _)
\* the loop pushing ':' after every pair, the last one included
FormatLoop_ColonAfterEach(hex_print, i, formatted_print) ==
    IF i = Len(hex_print) THEN formatted_print
    ELSE FormatLoop_ColonAfterEach(hex_print, i + 2,
            formatted_print \o <<hex_print[i + 1], hex_print[i + 2], ":">>)

RECURSIVE FormatLoop(_, _, _)
\* for(i = 0; i != hex_print.size(); i += 2): two characters are pushed, and
\* ':' unless they are the last two (hex_print[i] is hex_print[i + 1] here:
\* sequences start at 1)
FormatLoop(hex_print, i, formatted_print) ==
    IF i = Len(hex_print) THEN formatted_print
    ELSE FormatLoop(hex_print, i + 2,
            formatted_print \o <<hex_print[i + 1], hex_print[i + 2]>>
                            \o (IF i # Len(hex_print) - 2 THEN <<":">> ELSE <<>>))

\* HashFunction::create(hash_name) gives a hash function, or null when the
\* build does not have it
HashAvailable(w, hash_name) == hash_name = "SHA-1" => w.sha1_available

\* fingerprint(hash_name), given the digest the hash function returns for
\* BER_encode()
fingerprint(digest) == FormatLoop(hex_encode(digest), 0, <<>>)

\* what a call through the null pointer may do: the process dies, or goes on
\* with some string
UndefinedFingerprints == {<<"SIGSEGV">>, <<>>, <<":">>}

\* operator==
CertEq(a, b) ==
    /\ VecEq(signature(a), signature(b))
    /\ AlgIdEq(signature_algorithm(a), signature_algorithm(b))
    /\ VecEq(signed_body(a), signed_body(b))

\* operator<
CertLess(a, b) ==
    IF ~VecEq(signature(a), signature(b))
    THEN VecLess(signature(a), signature(b))
    ELSE VecLess(signed_body(a), signed_body(b))

\* operator!=
CertNotEq(a, b) == ~CertEq(a, b)

(***************************************************************************)
(* force_decode                                                            *)
(***************************************************************************)
\* decode_optional(m_version, ASN1_Tag(0), ...): the value on the wire, the
\* default 0 when the field is absent
DecodedVersion(w) == IF w.version.present THEN w.version.value ELSE 0

\* the version check one version too lenient
UnknownVersion_OffByOne(w) == DecodedVersion(w) > 3

\* if(m_version > 2) throw
UnknownVersion(w) == DecodedVersion(w) > 2

\* the comparison of the two identifiers looking at the OID alone
InnerOuterDiffer_OidOnly(w) == w.sig_algo.oid # w.sig_algo_inner.oid

\* if(signature_algorithm() != m_sig_algo_inner) throw
InnerOuterDiffer(w) == ~AlgIdEq(w.sig_algo, w.sig_algo_inner)

\* if(public_key.type_tag != SEQUENCE || public_key.class_tag != CONSTRUCTED) throw
BadPublicKeyTag(w) ==
    w.public_key.type_tag # "SEQUENCE" \/ w.public_key.class_tag # "CONSTRUCTED"

\* the checks with the PSS key compared to the signature algorithm by OID only
RsaKeyPolicyError_PssOidOnly(w) ==
    LET public_key_alg_id == w.public_key_alg_id
        public_key_info == oid2str_split(public_key_alg_id.oid)
    IN IF public_key_info # <<>> /\ public_key_info[1] = "RSA"
       THEN IF Len(public_key_info) >= 2
            THEN IF public_key_info[2] = "EMSA4" /\ public_key_alg_id.oid # w.sig_algo.oid
                 THEN "Algorithm identifier mismatch"
                 ELSE IF public_key_info[2] = "OAEP"
                 THEN "Decoding subject public keys of type RSAES-OAEP is currently not supported"
                 ELSE ""
            ELSE IF ~AlgIdEq(public_key_alg_id, AlgIdNullParam(public_key_alg_id.oid))
                 THEN "Parameters field MUST contain NULL"
                 ELSE ""
       ELSE ""

\* the checks on an RSA subject public key: the message of the exception
\* thrown, "" when none is
RsaKeyPolicyError(w) ==
    LET public_key_alg_id == w.public_key_alg_id
        public_key_info == oid2str_split(public_key_alg_id.oid)
    IN IF public_key_info # <<>> /\ public_key_info[1] = "RSA"
       THEN IF Len(public_key_info) >= 2
            THEN IF public_key_info[2] = "EMSA4" /\ ~AlgIdEq(public_key_alg_id, w.sig_algo)
                 THEN "Algorithm identifier mismatch"
                 ELSE IF public_key_info[2] = "OAEP"
                 THEN "Decoding subject public keys of type RSAES-OAEP is currently not supported"
                 ELSE ""
            ELSE IF ~AlgIdEq(public_key_alg_id, AlgIdNullParam(public_key_alg_id.oid))
                 THEN "Parameters field MUST contain NULL"
                 ELSE ""
       ELSE ""

\* the object after the v2 identifiers is the extensions block
HasExtensionsBlock(w) ==
    w.v3_exts_data.type_tag = "3" /\ w.v3_exts_data.class_tag = "CONSTRUCTED|CONTEXT_SPECIFIC"

\* else if(v3_exts_data.type_tag != NO_OBJECT) throw
UnknownExtensionsTag(w) == ~HasExtensionsBlock(w) /\ w.v3_exts_data.type_tag # "NO_OBJECT"

\* the signed body read without looking for what is left
more_items_NotLooked(w) == FALSE

\* tbs_cert.more_items() after the extensions block
more_items(w) == w.more_items

\* v3_extensions(): the decoded block, empty when the block is absent
v3_extensions(w) == IF HasExtensionsBlock(w) THEN w.extensions ELSE NoExtensions

\* m_key_constraints as cached from the Key_Usage extension
CachedKeyConstraints(ext) ==
    IF ext.key_usage.present THEN ext.key_usage.constraints ELSE NO_CONSTRAINTS

\* m_is_ca_certificate as cached from the Basic_Constraints extension; c is
\* the object with its key constraints already cached
CachedIsCA(c, ext) ==
    IF ext.basic_constraints.present /\ ext.basic_constraints.is_ca = TRUE
    THEN allowed_usage(c, {"KEY_CERT_SIGN"})
    ELSE c.is_ca_certificate

\* m_path_len_constraint; c is the object with its CA flag already cached
CachedPathLimit(c, ext) ==
    IF ext.basic_constraints.present /\ ext.basic_constraints.is_ca = TRUE
       /\ c.is_ca_certificate
    THEN ext.basic_constraints.path_limit
    ELSE c.path_len_constraint

\* m_extended_key_usage as cached from the Extended_Key_Usage extension
CachedExtendedKeyUsage(c, ext) ==
    IF ext.ext_key_usage.present THEN ext.ext_key_usage.oids ELSE c.extended_key_usage

\* the self-signature check is made for a self-issued certificate only
SelfSignatureChecked(c) == DN_Eq(c.subject_dn, c.issuer_dn)

\* load_subject_public_key() throws when the key cannot be loaded
KeyLoadThrows(c, w) == SelfSignatureChecked(c) /\ ~w.key_loadable

\* the signature checked against the embedded key whoever the issuer is
CachedSelfSigned_AnyIssuer(c, w) == w.signature_verifies

\* m_self_signed = check_signature(*pub_key), made only when subject and
\* issuer are equal
CachedSelfSigned(c, w) ==
    IF SelfSignatureChecked(c) THEN w.signature_verifies ELSE c.self_signed

\* the SHA-1 of the public key bit string, left empty when the build has no SHA-1
CachedKeySha1(c, w) ==
    IF w.sha1_available THEN <<"SHA-1", c.subject_public_key_bitstring>>
    ELSE c.subject_public_key_bitstring_sha1

Failure(w, msg) == [ok |-> FALSE, err |-> msg, cert |-> NewCertificate(w)]

\* force_decode(): the exception thrown, or the finished object
force_decode(w) ==
    LET c0 == NewCertificate(w)
        c1 == [c0 EXCEPT !.version = DecodedVersion(w),
                         !.sig_algo_inner = w.sig_algo_inner,
                         !.issuer_dn = w.issuer_dn,
                         !.subject_dn = w.subject_dn]
        c2 == [c1 EXCEPT !.version = c1.version + 1]
        c3 == [c2 EXCEPT !.subject_public_key_algid = w.public_key_alg_id,
                         !.subject_public_key_bitstring = w.public_key_bitstring]
        ext == v3_extensions(w)
        c4 == [c3 EXCEPT !.key_constraints = CachedKeyConstraints(ext)]
        c5 == [c4 EXCEPT !.is_ca_certificate = CachedIsCA(c4, ext)]
        c6 == [c5 EXCEPT !.path_len_constraint = CachedPathLimit(c5, ext),
                         !.extended_key_usage = CachedExtendedKeyUsage(c5, ext)]
        c7 == [c6 EXCEPT !.self_signed = CachedSelfSigned(c6, w)]
        c8 == [c7 EXCEPT !.subject_public_key_bitstring_sha1 = CachedKeySha1(c7, w),
                         !.subject_ds = DN_contents(c7.subject_dn) \cup ext.subject_alt_name,
                         !.issuer_ds = DN_contents(c7.issuer_dn)]
    IN IF UnknownVersion(w)
       THEN Failure(w, "Unknown X.509 cert version")
       ELSE IF InnerOuterDiffer(w)
       THEN Failure(w, "X.509 Certificate had differing algorithm identifers in inner and outer ID fields")
       ELSE IF BadPublicKeyTag(w)
       THEN Failure(w, "X509_Certificate: Unexpected tag for public key")
       ELSE IF RsaKeyPolicyError(w) # ""
       THEN Failure(w, RsaKeyPolicyError(w))
       ELSE IF UnknownExtensionsTag(w)
       THEN Failure(w, "Unknown tag in X.509 cert")
       ELSE IF more_items(w)
       THEN Failure(w, "TBSCertificate has extra data after extensions block")
       ELSE IF KeyLoadThrows(c6, w)
       THEN Failure(w, "X509_Certificate::load_subject_public_key")
       ELSE [ok |-> TRUE, err |-> "", cert |-> c8]

(***************************************************************************)
(* The encoded certificates the model decodes                              *)
(***************************************************************************)
WireVersions ==
    {[present |-> FALSE, value |-> 0]}
    \cup {[present |-> TRUE, value |-> v] : v \in 0..MaxWireVersion}

SigAlgIds == {AlgRsaSha256, AlgId(OID_RSA_SHA256, "EMPTY"), AlgEcdsaSha256,
              AlgPss32, AlgPss20}

KeyAlgIds == {AlgId(OID_RSA, "NULL"), AlgId(OID_RSA, "EMPTY"),
              AlgId(OID_RSA_OAEP, "NULL"), AlgId(OID_ECDSA_KEY, "EMPTY"),
              AlgPss32, AlgPss20, AlgId(OID_RSA_PSS, "NULL"),
              AlgId(OID_UNKNOWN, "NULL")}

KeyObjects == {PublicKeyObject, NoObject, BerObject("SET", "CONSTRUCTED"),
               BerObject("SEQUENCE", "UNIVERSAL")}

ExtObjects == {ExtensionsObject, NoObject,
               BerObject("4", "CONSTRUCTED|CONTEXT_SPECIFIC"),
               BerObject("3", "CONTEXT_SPECIFIC")}

\* Key_Usage::get_constraints() may hold any value of Key_Constraints, the
\* value with no bit set included: force_decode copies it as it is
KeyUsages ==
    {[present |-> FALSE, constraints |-> {}]}
    \cup {[present |-> TRUE, constraints |-> k] : k \in SUBSET UsageBits}

BasicConstraints ==
    {[present |-> FALSE, is_ca |-> FALSE, path_limit |-> 0],
     [present |-> TRUE, is_ca |-> FALSE, path_limit |-> 0],
     [present |-> TRUE, is_ca |-> TRUE, path_limit |-> 0],
     [present |-> TRUE, is_ca |-> TRUE, path_limit |-> 1]}

ExtKeyUsages ==
    {[present |-> FALSE, oids |-> {}]}
    \cup {[present |-> TRUE, oids |-> o] :
            o \in {x \in SUBSET {OID_ServerAuth, OID_ClientAuth, OID_CodeSigning,
                                 OID_OCSPSigning} : Cardinality(x) <= 2}}

AltNames == SUBSET {AltNameList[i] : i \in 1..Len(AltNameList)}

Dns == {DnList[i] : i \in 1..Len(DnList)}

\* the version and the two signature algorithm identifiers vary
HeaderWires ==
    {[BaseWire EXCEPT !.version = v, !.sig_algo = o, !.sig_algo_inner = i] :
        v \in WireVersions, o \in SigAlgIds, i \in SigAlgIds}

\* the subject public key and what follows it vary; nothing can follow the
\* end of the body
BodyWires ==
    {w \in {[BaseWire EXCEPT !.sig_algo = a, !.sig_algo_inner = a, !.public_key = k,
                             !.public_key_alg_id = ka, !.v3_exts_data = x,
                             !.more_items = m] :
               a \in {AlgRsaSha256, AlgPss32}, k \in KeyObjects, ka \in KeyAlgIds,
               x \in ExtObjects, m \in BOOLEAN} :
        w.more_items => w.v3_exts_data # NoObject}

\* the extensions force_decode caches vary
ExtensionWires ==
    {[BaseWire EXCEPT !.extensions =
          [key_usage |-> ku, basic_constraints |-> bc, ext_key_usage |-> eku,
           subject_alt_name |-> {}]] :
        ku \in KeyUsages, bc \in BasicConstraints, eku \in ExtKeyUsages}

\* the subject's names vary
NameWires ==
    {[BaseWire EXCEPT !.subject_dn = dn, !.extensions.subject_alt_name = an] :
        dn \in Dns, an \in AltNames}

\* issuer, subject and the outcome of the self-signature check vary
IssuerWires ==
    {[BaseWire EXCEPT !.issuer_dn = i, !.subject_dn = sdn, !.key_loadable = kl,
                      !.signature_verifies = sv, !.sha1_available = h] :
        i \in Dns, sdn \in Dns, kl \in BOOLEAN, sv \in BOOLEAN, h \in BOOLEAN}

\* the digest a hash function returns for the certificate's encoding varies
DigestWires ==
    {[BaseWire EXCEPT !.digests = [BaseWire.digests EXCEPT ![h] = d]] :
        h \in HashNames, d \in Digests}

\* what follows the subject public key varies: the v2 identifiers, the object
\* in the place of the extensions block and what it holds, bytes after it
TrailerWires ==
    {w \in {[BaseWire EXCEPT !.v2_issuer_key_id = i, !.v2_subject_key_id = s,
                             !.v3_exts_data = x, !.extensions = e, !.more_items = m] :
               i \in BOOLEAN, s \in BOOLEAN, x \in ExtObjects,
               e \in {NoExtensions,
                      [NoExtensions EXCEPT !.key_usage = [present |-> TRUE,
                                                          constraints |-> {"KEY_CERT_SIGN"}]]},
               m \in BOOLEAN} :
        w.v3_exts_data = NoObject => (~w.more_items /\ w.extensions = NoExtensions)}

Wires == HeaderWires \cup BodyWires \cup ExtensionWires \cup NameWires \cup IssuerWires
         \cup DigestWires \cup TrailerWires

\* certificates kept in one set: signature value, signature algorithm and the
\* body (through the version and the inner algorithm identifier) vary
CmpWires ==
    {[BaseWire EXCEPT !.sig = sg, !.sig_algo = o, !.sig_algo_inner = i, !.version = v] :
        sg \in ByteSeqs(MaxSigLen), o \in {AlgRsaSha256, AlgId(OID_RSA_SHA256, "EMPTY")},
        i \in {AlgRsaSha256, AlgId(OID_RSA_SHA256, "EMPTY")},
        v \in {[present |-> FALSE, value |-> 0], [present |-> TRUE, value |-> 0]}}

(***************************************************************************)
(* Actions                                                                 *)
(***************************************************************************)
NoQuery == [op |-> "", arg |-> ""]

Init ==
    /\ pc = "encoded"
    /\ input \in Wires
    /\ cert = NewCertificate(input)
    /\ err = ""
    /\ peers = <<>>
    /\ query = NoQuery
    /\ result = FALSE

\* X509_Certificate(in): X509_Object loads the encoding, do_decode() runs
\* force_decode(); an exception leaves no object
ForceDecode ==
    /\ pc = "encoded"
    /\ LET r == force_decode(input) IN
       /\ pc' = IF r.ok THEN "decoded" ELSE "failed"
       /\ cert' = r.cert
       /\ err' = r.err
    /\ UNCHANGED <<input, peers, query, result>>

\* A const member function called on the decoded object.  No call changes the
\* object, so what a call returns does not depend on the calls before it: a
\* behaviour makes one call.
Call(op, arg, value) ==
    /\ pc = "decoded"
    /\ query = NoQuery
    /\ query' = [op |-> op, arg |-> arg]
    /\ result' = value
    /\ UNCHANGED <<pc, input, cert, err, peers>>

Call_x509_version == Call("x509_version", "", x509_version(cert))

Call_is_CA_cert == Call("is_CA_cert", "", is_CA_cert(cert))

Call_is_self_signed == Call("is_self_signed", "", is_self_signed(cert))

Call_allowed_usage ==
    \E usage \in SUBSET UsageBits : Call("allowed_usage", usage, allowed_usage(cert, usage))

Call_allowed_extended_usage ==
    \E usage \in {"PKIX.ServerAuth", "PKIX.ClientAuth", "PKIX.CodeSigning", "PKIX.OCSPSigning"} :
        Call("allowed_extended_usage", usage, allowed_extended_usage(cert, usage))

Call_allowed_usage_type ==
    \E usage \in Usage_Type : Call("allowed_usage_type", usage, allowed_usage_type(cert, usage))

Call_has_constraints ==
    \E bits \in SUBSET UsageBits : Call("has_constraints", bits, has_constraints(cert, bits))

Call_matches_dns_name ==
    \E name \in QueryNames : Call("matches_dns_name", name, matches_dns_name(cert, name))

\* fingerprint(hash_name); with a hash function the build does not have, the
\* null pointer create() returned is dereferenced
Call_fingerprint ==
    \E hash_name \in HashNames :
        IF HashAvailable(input, hash_name)
        THEN Call("fingerprint", hash_name, fingerprint(input.digests[hash_name]))
        ELSE \E outcome \in UndefinedFingerprints : Call("fingerprint", hash_name, outcome)

Call_subject_public_key_bitstring_sha1 ==
    Call("subject_public_key_bitstring_sha1", "", subject_public_key_bitstring_sha1(cert))

\* a further certificate is decoded; an input that fails to decode leaves no
\* object to compare
DecodePeer ==
    /\ pc = "decoded"
    /\ Len(peers) < 2
    /\ \E w \in CmpWires :
          /\ force_decode(w).ok
          /\ peers' = Append(peers, force_decode(w).cert)
    /\ UNCHANGED <<pc, input, cert, err, query, result>>

\* operator==, operator!= and operator< on the decoded certificates
Compare ==
    /\ pc = "decoded"
    /\ Len(peers) = 2
    /\ query = NoQuery
    /\ query' = [op |-> "compare", arg |-> ""]
    /\ LET a == cert
           b == peers[1]
           c == peers[2]
       IN result' = [eq_aa |-> CertEq(a, a), eq_ab |-> CertEq(a, b), eq_ba |-> CertEq(b, a),
                     eq_bc |-> CertEq(b, c), eq_ac |-> CertEq(a, c),
                     ne_ab |-> CertNotEq(a, b),
                     lt_ab |-> CertLess(a, b), lt_ba |-> CertLess(b, a)]
    /\ UNCHANGED <<pc, input, cert, err, peers>>

Next ==
    \/ ForceDecode
    \/ Call_x509_version
    \/ Call_is_CA_cert
    \/ Call_is_self_signed
    \/ Call_allowed_usage
    \/ Call_allowed_extended_usage
    \/ Call_allowed_usage_type
    \/ Call_has_constraints
    \/ Call_matches_dns_name
    \/ Call_fingerprint
    \/ Call_subject_public_key_bitstring_sha1

Spec == Init /\ [][Next]_vars

InitCmp ==
    /\ pc = "encoded"
    /\ input \in CmpWires
    /\ cert = NewCertificate(input)
    /\ err = ""
    /\ peers = <<>>
    /\ query = NoQuery
    /\ result = FALSE

NextCmp ==
    \/ ForceDecode
    \/ DecodePeer
    \/ Compare

\* certificates from several sources compared with each other
SpecCmp == InitCmp /\ [][NextCmp]_vars

(***************************************************************************)
(* Properties                                                              *)
(***************************************************************************)
Finished == pc # "encoded"

ErrDiffering == "X.509 Certificate had differing algorithm identifers in inner and outer ID fields"

\* C1: decoding fails whenever the signature algorithm identifier inside the
\* signed body differs (in OID or in parameters) from the outer one, with the
\* consistency error when the input is otherwise well formed; so every decoded
\* certificate has its inner identifier equal to its outer identifier.
C1_InnerOuterMismatchFails ==
    /\ (Finished /\ input.sig_algo # input.sig_algo_inner) => pc = "failed"
    /\ (Finished /\ input.sig_algo # input.sig_algo_inner
          /\ (input.version.present => input.version.value <= 2))
       => err = ErrDiffering
    /\ pc = "decoded" => cert.sig_algo_inner = signature_algorithm(cert)

\* a decode that failed on identifiers with one OID and different parameters
C1_Witness ==
    /\ pc = "failed"
    /\ err = ErrDiffering
    /\ input.sig_algo.oid = input.sig_algo_inner.oid
    /\ input.sig_algo.parameters # input.sig_algo_inner.parameters

\* C2: a decoded certificate reports x509_version() in {1,2,3}, the version
\* value on the wire plus one (the value 0 when the field is absent), and
\* decoding fails whenever the value on the wire is greater than 2.
C2_VersionNormalised ==
    LET wire_value == IF input.version.present THEN input.version.value ELSE 0 IN
    /\ pc = "decoded" => x509_version(cert) \in {1, 2, 3} /\ x509_version(cert) = wire_value + 1
    /\ query.op = "x509_version" => result \in {1, 2, 3} /\ result = wire_value + 1
    /\ (Finished /\ wire_value > 2) => pc = "failed"

\* x509_version() called on a certificate decoded without a version field
C2_Witness ==
    /\ query.op = "x509_version"
    /\ ~input.version.present
    /\ result = 1

\* a decode that failed on wire version 3
C2_WitnessRejected ==
    /\ pc = "failed"
    /\ input.version.present /\ input.version.value = 3
    /\ err = "Unknown X.509 cert version"

\* the extensions of the input, as force_decode sees them
InputExtensions ==
    IF input.v3_exts_data = ExtensionsObject THEN input.extensions ELSE NoExtensions

\* C3: is_CA_cert() is true only if Basic Constraints is present with CA=true
\* and the key constraints permit certificate signing; a certificate whose Key
\* Usage extension is present and does not include KEY_CERT_SIGN is never
\* reported as a CA; one with Basic Constraints CA=true and no Key Usage
\* extension is reported as a CA.
C3_CAOnlyWithCertSign ==
    LET ku == InputExtensions.key_usage
        bc == InputExtensions.basic_constraints
    IN pc = "decoded" =>
       /\ is_CA_cert(cert) => (bc.present /\ bc.is_ca /\ allowed_usage(cert, {"KEY_CERT_SIGN"}))
       /\ (ku.present /\ "KEY_CERT_SIGN" \notin ku.constraints) => ~is_CA_cert(cert)
       /\ (bc.present /\ bc.is_ca /\ ~ku.present) => is_CA_cert(cert)

\* C4: allowed_usage(u) is true when the key constraints are NO_CONSTRAINTS,
\* which they are whenever no Key Usage extension is present, and otherwise is
\* true exactly when every bit of u is set in the key constraints.
C4_AllowedUsage ==
    /\ query.op = "allowed_usage" =>
          result = (constraints(cert) = NO_CONSTRAINTS \/ query.arg \subseteq constraints(cert))
    /\ (query.op = "allowed_usage" /\ ~InputExtensions.key_usage.present) => result = TRUE
    /\ (pc = "decoded" /\ ~InputExtensions.key_usage.present) => constraints(cert) = NO_CONSTRAINTS

\* allowed_usage refusing a usage of two bits of which the certificate has one
C4_Witness ==
    /\ query.op = "allowed_usage"
    /\ query.arg = {"DIGITAL_SIGNATURE", "KEY_CERT_SIGN"}
    /\ constraints(cert) = {"DIGITAL_SIGNATURE", "KEY_AGREEMENT"}
    /\ result = FALSE

\* C5: allowed_usage(purpose) follows the rule table: UNSPECIFIED is true,
\* CERTIFICATE_AUTHORITY is is_CA_cert(), and each of the three other purposes
\* needs one of its key usage bits allowed and its extended usage allowed; an
\* extended usage is allowed iff the extended key usage set is empty or
\* contains its OID.
C5_UsageTypeTable ==
    LET kc == cert.key_constraints
        eku == cert.extended_key_usage
        BitAllowed(b) == kc = {} \/ b \in kc
        ExtAllowed(oid) == eku = {} \/ oid \in eku
        Rule(t) ==
            CASE t = "UNSPECIFIED" -> TRUE
              [] t = "CERTIFICATE_AUTHORITY" -> cert.is_ca_certificate
              [] t = "TLS_SERVER_AUTH" ->
                    (\E b \in {"KEY_AGREEMENT", "KEY_ENCIPHERMENT", "DIGITAL_SIGNATURE"} : BitAllowed(b))
                    /\ ExtAllowed(OID_ServerAuth)
              [] t = "TLS_CLIENT_AUTH" ->
                    (\E b \in {"DIGITAL_SIGNATURE", "KEY_AGREEMENT"} : BitAllowed(b))
                    /\ ExtAllowed(OID_ClientAuth)
              [] t = "OCSP_RESPONDER" ->
                    (\E b \in {"DIGITAL_SIGNATURE", "NON_REPUDIATION"} : BitAllowed(b))
                    /\ ExtAllowed(OID_OCSPSigning)
    IN /\ query.op = "allowed_usage_type" => result = Rule(query.arg)
       /\ query.op = "allowed_extended_usage" => result = ExtAllowed(str2oid(query.arg))

\* TLS_SERVER_AUTH allowed through KEY_ENCIPHERMENT alone, with no extended
\* key usage restriction
C5_Witness ==
    /\ query.op = "allowed_usage_type"
    /\ query.arg = "TLS_SERVER_AUTH"
    /\ cert.key_constraints = {"KEY_ENCIPHERMENT"}
    /\ cert.extended_key_usage = {}
    /\ result = TRUE

\* C6: has_constraints(bits) is true only if key constraints were asserted and
\* share a bit with bits; on an unconstrained certificate has_constraints(bits)
\* is false for every bits, where allowed_usage(bits) is true.
C6_HasConstraints ==
    /\ query.op = "has_constraints" =>
          result = (InputExtensions.key_usage.present
                    /\ \E b \in query.arg : b \in InputExtensions.key_usage.constraints)
    /\ (query.op = "has_constraints" /\ cert.key_constraints = NO_CONSTRAINTS) => result = FALSE
    /\ (query.op = "allowed_usage" /\ cert.key_constraints = NO_CONSTRAINTS) => result = TRUE

\* has_constraints denying on an unconstrained certificate a usage that
\* allowed_usage grants on it
C6_Witness ==
    /\ query.op = "has_constraints"
    /\ query.arg = {"KEY_CERT_SIGN"}
    /\ ~InputExtensions.key_usage.present
    /\ allowed_usage(cert, query.arg)
    /\ result = FALSE

\* C7: matches_dns_name(name) is false for the empty name; for another name it
\* is true iff a candidate wildcard-matches it, the candidates being the DNS
\* subject alternative names when there is one and the Common Names only when
\* there is none.
C7_MatchesDnsName ==
    LET san == {p[2] : p \in {q \in InputExtensions.subject_alt_name : q[1] = "DNS"}}
        candidates == IF san # {} THEN san ELSE input.subject_dn.cn
    IN query.op = "matches_dns_name" =>
          result = (query.arg # <<>> /\ \E cand \in candidates : host_wildcard_match(cand, query.arg))

\* a name equal to the Common Name refused because a DNS alternative name is set
C7_Witness ==
    /\ query.op = "matches_dns_name"
    /\ query.arg = HostA
    /\ HostA \in input.subject_dn.cn
    /\ InputExtensions.subject_alt_name = {<<"DNS", HostB>>}
    /\ result = FALSE

C8_EqualityOnTriple ==
    query.op = "compare" =>
        LET a == cert
            b == peers[1]
        IN /\ result.eq_aa
           /\ result.eq_ab = result.eq_ba
           /\ (result.eq_ab /\ result.eq_bc) => result.eq_ac
           /\ result.eq_ab = (a.sig = b.sig /\ a.sig_algo = b.sig_algo /\ a.tbs_bits = b.tbs_bits)
           /\ result.ne_ab = ~result.eq_ab

\* two certificates with one signature and the same parsed fields, one with
\* the version written out and one without, compared unequal
C8_Witness ==
    /\ query.op = "compare"
    /\ cert.sig = peers[1].sig
    /\ [cert EXCEPT !.tbs_bits = <<>>] = [peers[1] EXCEPT !.tbs_bits = <<>>]
    /\ cert.tbs_bits # peers[1].tbs_bits
    /\ result.eq_ab = FALSE
    /\ result.ne_ab = TRUE

\* C9: for decoded certificates a and b, a<b and b<a never both hold, and
\* neither holds exactly when a==b.
C9_OrderConsistentWithEquality ==
    query.op = "compare" =>
        /\ ~(result.lt_ab /\ result.lt_ba)
        /\ (~result.lt_ab /\ ~result.lt_ba) = result.eq_ab

\* two certificates with one signature value and different signature
\* algorithms, told apart by operator< through their bodies
C9_Witness ==
    /\ query.op = "compare"
    /\ cert.sig = peers[1].sig
    /\ cert.sig_algo # peers[1].sig_algo
    /\ result.lt_ab # result.lt_ba
    /\ ~result.eq_ab

\* C11: fingerprint(hash_name) is the hex encoding of the digest with ':'
\* between every two bytes and none after the last; for a digest of n >= 1
\* bytes it has 3n-1 characters, every third one is ':' and no other, and it
\* is decided by the digest of the encoded certificate for that hash name.
C11_FingerprintFormat ==
    (query.op = "fingerprint" /\ HashAvailable(input, query.arg)) =>
        LET digest == input.digests[query.arg]
            n == Len(digest)
        IN /\ n >= 1 =>
                /\ Len(result) = 3 * n - 1
                /\ \A k \in 1..Len(result) : (result[k] = ":") = (k % 3 = 0)
                /\ result[1] # ":" /\ result[Len(result)] # ":"
                /\ \A j \in 1..n :
                      /\ result[3 * j - 2] = HexDigits[(digest[j] \div 16) + 1]
                      /\ result[3 * j - 1] = HexDigits[(digest[j] % 16) + 1]

\* the fingerprint of a three byte digest
C11_Witness ==
    /\ query.op = "fingerprint"
    /\ query.arg = "SHA-256"
    /\ input.digests["SHA-256"] = <<0, 26, 255>>
    /\ result = <<"0", "0", ":", "1", "A", ":", "F", "F">>

\* what the call recorded in query gives on the object c
AccessorValue(c, op, arg) ==
    CASE op = "x509_version" -> x509_version(c)
      [] op = "is_CA_cert" -> is_CA_cert(c)
      [] op = "is_self_signed" -> is_self_signed(c)
      [] op = "allowed_usage" -> allowed_usage(c, arg)
      [] op = "allowed_extended_usage" -> allowed_extended_usage(c, arg)
      [] op = "allowed_usage_type" -> allowed_usage_type(c, arg)
      [] op = "has_constraints" -> has_constraints(c, arg)
      [] op = "matches_dns_name" -> matches_dns_name(c, arg)

\* the same encoding decoded by a build that has SHA-1
WithSha1 == force_decode([input EXCEPT !.sha1_available = TRUE])

Sha1Disabled == "X509_Certificate::subject_public_key_bitstring_sha1 called but SHA-1 disabled in build"

C12_WitnessAvailable ==
    /\ pc = "decoded"
    /\ input.sha1_available
    /\ query.op = "subject_public_key_bitstring_sha1"
    /\ result = Returned(<<"SHA-1", input.public_key_bitstring>>)

\* without SHA-1 another accessor still answers
C12_WitnessOtherAccessor ==
    /\ pc = "decoded"
    /\ ~input.sha1_available
    /\ query.op = "is_self_signed"
    /\ result = TRUE

ErrPssMismatch == "Algorithm identifier mismatch"

ErrOaep == "Decoding subject public keys of type RSAES-OAEP is currently not supported"

ErrRsaParams == "Parameters field MUST contain NULL"

\* the decode got as far as the algorithm identifier of the subject public key
ReachedKeyPolicy ==
    /\ pc # "encoded"
    /\ ~UnknownVersion(input)
    /\ ~InnerOuterDiffer(input)
    /\ ~BadPublicKeyTag(input)

C13_WitnessPlainRsa ==
    /\ pc = "failed"
    /\ input.public_key_alg_id = AlgId(OID_RSA, "EMPTY")
    /\ err = ErrRsaParams

\* an RSA-OAEP key is refused
C13_WitnessOaep ==
    /\ pc = "failed"
    /\ input.public_key_alg_id.oid = OID_RSA_OAEP
    /\ err = ErrOaep

\* an RSA-PSS key equal to the signature algorithm, and a key that is not RSA
\* with parameters that are not NULL, are accepted
C13_WitnessAccepted ==
    /\ pc = "decoded"
    /\ \/ input.public_key_alg_id = AlgPss32 /\ input.sig_algo = AlgPss32
       \/ input.public_key_alg_id = AlgId(OID_ECDSA_KEY, "EMPTY")

\* the decode got as far as the object after the v2 identifiers
ReachedExtensions == ReachedKeyPolicy /\ RsaKeyPolicyError(input) = ""

\* C14: after the subject public key and the optional v2 identifiers the
\* signed body holds an optional extensions block, context tag 3 and
\* constructed, and nothing else.  With no further object the certificate
\* decodes without extensions; an object with any other tag makes the decode
\* fail; bytes left after the block make the decode fail; a decoded
\* certificate has no trailing data in its signed body.
C14_NothingAfterExtensions ==
    pc # "encoded" =>
        LET next == input.v3_exts_data
            absent == next.type_tag = "NO_OBJECT"
            block == next.type_tag = "3" /\ next.class_tag = "CONSTRUCTED|CONTEXT_SPECIFIC"
        IN /\ pc = "decoded" => (~input.more_items /\ (absent \/ block))
           /\ (~absent /\ ~block) =>
                 (pc = "failed" /\ (ReachedExtensions => err = "Unknown tag in X.509 cert"))
           /\ ((absent \/ block) /\ input.more_items) =>
                 /\ pc = "failed"
                 /\ ReachedExtensions =>
                       err = "TBSCertificate has extra data after extensions block"
           /\ (ReachedExtensions /\ (absent \/ block) /\ ~input.more_items) =>
                 err \notin {"Unknown tag in X.509 cert",
                             "TBSCertificate has extra data after extensions block"}
           /\ (pc = "decoded" /\ absent) =>
                 /\ constraints(cert) = NO_CONSTRAINTS
                 /\ extended_key_usage(cert) = {}
                 /\ ~is_CA_cert(cert)
                 /\ cert.path_len_constraint = 0
                 /\ cert.subject_ds = DN_contents(input.subject_dn)
           /\ (pc = "decoded" /\ block) =>
                 constraints(cert) = input.extensions.key_usage.constraints

\* bytes after a well-formed extensions block that follows both v2
\* identifiers are refused
C14_Witness ==
    /\ pc = "failed"
    /\ input.v2_issuer_key_id /\ input.v2_subject_key_id
    /\ input.v3_exts_data = ExtensionsObject
    /\ input.more_items
    /\ err = "TBSCertificate has extra data after extensions block"

\* a certificate without an extensions block is decoded
C14_WitnessAbsent ==
    /\ pc = "decoded"
    /\ input.v3_exts_data = NoObject
    /\ input.v2_subject_key_id
    /\ constraints(cert) = NO_CONSTRAINTS

\* an object with context tag 4 in the place of the block is refused
C14_WitnessOtherTag ==
    /\ pc = "failed"
    /\ input.v3_exts_data = BerObject("4", "CONSTRUCTED|CONTEXT_SPECIFIC")
    /\ err = "Unknown tag in X.509 cert"

\* a certificate whose block holds a key usage is decoded with it
C14_WitnessBlock ==
    /\ pc = "decoded"
    /\ input.v3_exts_data = ExtensionsObject
    /\ input.v2_issuer_key_id
    /\ constraints(cert) = {"KEY_CERT_SIGN"}

====
